---- MODULE Spec2Model ----
(***************************************************************************)
(* A model of renpy/display/video.py: the movie texture cache, the Movie   *)
(* displayable (construction, state restore, render, play, stop), the      *)
(* playback synchroniser update_playing and the periodic driver frequent.  *)
(*                                                                         *)
(* video.py holds no scheduler: early_interact, interact, Movie.render,    *)
(* Movie.per_interact, Movie.set_transform_event, Movie.after_setstate and *)
(* frequent are entry points called from outside the file.  The           *)
(* specifications interleave them freely, with the steps of the collaborators *)
(* the file reads (the audio backend ending a playback, the loader, the    *)
(* current context changing).                                              *)
(***************************************************************************)
EXTENDS Integers, Sequences, FiniteSets, TLC

----------------------------------------------------------------------------
(* Values *)

\* Python's None, for every field that holds a name, a slot or a source.
None == "None"

\* The Movie objects of the model.
Slots == {"A", "B", "Y"}

\* The audio channels movies are shown on, and the mask channels.
Channels == {"movie", "y"}
MaskChannels == {"y_mask"}
AllChannels == Channels \cup MaskChannels

\* The order in which the dictionaries keyed by channel are walked.
ChanSeq == <<"movie", "y">>

Groups == {"g"}

\* Files the loader may or may not find.
Files == {"f1", "f2"}

\* Play sources: a filename (a str) or a list of filenames ("L12" is
\* ["f1", "f2"]).  Every source is non-empty, so that its truth value, which
\* "self._original_play or self._play" and "if self._play" take, is that of
\* "is not None".
StrSources == {"f1", "f2", "m1", "f@2.webm"}
ListSources == {"L12"}
Sources == StrSources \cup ListSources

IsStr(name) == name \in StrSources

Names(name) ==
    IF name = "L12" THEN {"f1", "f2"}
    ELSE IF name \in StrSources THEN {name}
    ELSE {}

\* Bounds of the model: the contexts renpy.game.context() can return, and
\* the caps of the counters the observers keep.
NumContexts == 2
MaxRuns == 3
MaxCount == 2

Contexts == 1 .. NumContexts

\* A texture: the channel it was decoded on, and whether the channel has
\* stopped and been started again since it was decoded (stale).
Tex == [ch : Channels, stale : BOOLEAN]
NoTex == [ch |-> None, stale |-> FALSE]
\* What a dictionary of textures holds for a key that is not in it (it may
\* hold None under a key that is).
Absent == [ch |-> "Absent", stale |-> FALSE]

\* dict.get(key, None)
Get(d, key) == IF d[key] = Absent THEN NoTex ELSE d[key]

\* Minimum, for the capped counters of the history variables.
Min(a, b) == IF a < b THEN a ELSE b

----------------------------------------------------------------------------
(* The arguments the Movie objects are constructed with *)

\* (play_callback tells whether the game gave a callback of its own;
\* oversample is the set of the factor given, in tenths, empty for None.)
MovieArgs(s) ==
    IF s = "A" THEN
        [channel |-> "movie", play |-> "f1", mask |-> None, mask_channel |-> None,
         side_mask |-> FALSE, image |-> TRUE, start_image |-> FALSE,
         loop |-> TRUE, group |-> "g", play_callback |-> FALSE,
         oversample |-> {}]
    ELSE IF s = "B" THEN
        [channel |-> "movie", play |-> "f2", mask |-> None, mask_channel |-> None,
         side_mask |-> FALSE, image |-> FALSE, start_image |-> TRUE,
         loop |-> FALSE, group |-> None, play_callback |-> FALSE,
         oversample |-> {}]
    ELSE
        [channel |-> "y", play |-> "L12", mask |-> "m1", mask_channel |-> None,
         side_mask |-> FALSE, image |-> TRUE, start_image |-> TRUE,
         loop |-> TRUE, group |-> "g", play_callback |-> FALSE,
         oversample |-> {}]

----------------------------------------------------------------------------
(* Movie: construction and state restore *)

\* Movie.any_loadable: a str is loadable if the loader finds it, a list if
\* the loader finds any of its names.  (No source of the model carries a
\* <...> prefix, so the prefix strip of a str leaves the name as it is.)
any_loadable(name, ld) ==
    IF IsStr(name) THEN name \in ld
    ELSE \E i \in Names(name) : i \in ld

\* channel + "_mask"
MaskOf(channel) == channel \o "_mask"

\* renpy.config.single_movie_channel and renpy.config.auto_movie_channel, as
\* the game of the model sets them: movies given the channel "movie" keep it.
single_movie_channel == None
auto_movie_channel == FALSE

\* The class default of Movie.playing_oversample, 1, in tenths.
DefaultOversample == 10

\* The channel Movie.__init__ settles on.
InitChannel(a) ==
    IF a.channel = "movie" /\ a.play # None /\ single_movie_channel # None
    THEN single_movie_channel
    ELSE IF a.channel = "movie" /\ a.play # None /\ auto_movie_channel
    THEN "_movie_0"
    ELSE a.channel

\* A constructor that would set _play without asking the loader; C10 tells
\* it from Movie.__init__.
MovieInit_noload(a, ld) ==
    LET mask == IF a.side_mask THEN None ELSE a.mask IN
    [channel |-> InitChannel(a),
     loop |-> a.loop,
     _original_play |-> a.play,
     _play |-> a.play,
     mask |-> mask,
     mask_channel |-> IF mask = None THEN None
                      ELSE IF a.mask_channel = None THEN MaskOf(InitChannel(a))
                      ELSE a.mask_channel,
     side_mask |-> a.side_mask,
     image |-> a.image,
     start_image |-> a.start_image,
     group |-> a.group,
     play_callback |-> a.play_callback,
     oversample |-> a.oversample,
     playing_oversample |-> DefaultOversample]

\* Movie.__init__: the fields the constructor sets, _play staying at the
\* class default None unless the source is loadable.
MovieInit(a, ld) ==
    LET mask == IF a.side_mask THEN None ELSE a.mask IN
    [channel |-> InitChannel(a),
     loop |-> a.loop,
     _original_play |-> a.play,
     _play |-> IF a.play # None /\ any_loadable(a.play, ld) THEN a.play ELSE None,
     mask |-> mask,
     mask_channel |-> IF mask = None THEN None
                      ELSE IF a.mask_channel = None THEN MaskOf(InitChannel(a))
                      ELSE a.mask_channel,
     side_mask |-> a.side_mask,
     image |-> a.image,
     start_image |-> a.start_image,
     group |-> a.group,
     play_callback |-> a.play_callback,
     oversample |-> a.oversample,
     playing_oversample |-> DefaultOversample]

\* Movie.after_setstate, the play source part (lines 527-532): m is the
\* restored object.
after_setstate(m, ld) ==
    LET play == IF m._original_play # None THEN m._original_play ELSE m._play IN
    IF play # None /\ any_loadable(play, ld)
    THEN [m EXCEPT !._original_play = play, !._play = play]
    ELSE [m EXCEPT !._play = None, !._original_play = play]

\* renpy.config as the game of the model sets it.
DefaultConfig ==
    [single_movie_channel |-> single_movie_channel,
     auto_movie_channel |-> auto_movie_channel]

\* ch in str, for a one-character ch.
Contains(str, ch) == \E i \in 1 .. Len(str) : SubSeq(str, i, i) = ch

\* "_movie_{}".format(movie_channel_serial)
GenName(serial) == "_movie_" \o ToString(serial)

\* Movie.__init__, lines 583-594: the channel the constructor settles on under
\* the configuration cfg, and the counter it leaves.  Only the default name
\* "movie" of a Movie that plays something is replaced.
ChannelChoice(a, cfg, serial) ==
    IF a.channel = "movie" /\ a.play # None /\ cfg.single_movie_channel # None
    THEN [channel |-> cfg.single_movie_channel, serial |-> serial]
    ELSE IF a.channel = "movie" /\ a.play # None /\ cfg.auto_movie_channel
    THEN [channel |-> GenName(serial), serial |-> serial + 1]
    ELSE [channel |-> a.channel, serial |-> serial]

\* Movie.__init__ under a configuration and a counter.
MovieInitAt(a, ld, cfg, serial) ==
    LET m == MovieInit(a, ld)
        channel == ChannelChoice(a, cfg, serial).channel IN
    [m EXCEPT !.channel = channel,
              !.mask_channel = IF m.mask = None THEN None
                               ELSE IF a.mask_channel = None THEN MaskOf(channel)
                               ELSE a.mask_channel]

\* A restore that would rename without advancing the counter; C11 tells it
\* from Movie.after_setstate.
after_setstate_channel_same(m, serial) ==
    IF Contains(m.channel, " ") \/ Contains(m.channel, "/")
    THEN [movie |-> [m EXCEPT !.channel = GenName(serial),
                              !.mask_channel = IF m.mask_channel # None
                                               THEN MaskOf(GenName(serial))
                                               ELSE None],
          serial |-> serial]
    ELSE [movie |-> m, serial |-> serial]

\* Movie.after_setstate, the channel part (lines 534-541): a channel name
\* with a space or a slash in it is replaced by a generated one, and a mask
\* channel that is set by that name + "_mask".
after_setstate_channel(m, serial) ==
    IF Contains(m.channel, " ") \/ Contains(m.channel, "/")
    THEN [movie |-> [m EXCEPT !.channel = GenName(serial),
                              !.mask_channel = IF m.mask_channel # None
                                               THEN MaskOf(GenName(serial))
                                               ELSE None],
          serial |-> serial + 1]
    ELSE [movie |-> m, serial |-> serial]

----------------------------------------------------------------------------
(* Oversampling: find_oversampled on filenames, as strings *)

\* str.find(ch) + 1 and str.rfind(ch) + 1 for a one-character ch: the
\* position of the first and of the last ch, 0 when there is none.
Find(str, ch) ==
    IF Contains(str, ch)
    THEN CHOOSE i \in 1 .. Len(str) :
             /\ SubSeq(str, i, i) = ch
             /\ \A j \in 1 .. (i - 1) : SubSeq(str, j, j) # ch
    ELSE 0

RFind(str, ch) ==
    IF Contains(str, ch)
    THEN CHOOSE i \in 1 .. Len(str) :
             /\ SubSeq(str, i, i) = ch
             /\ \A j \in (i + 1) .. Len(str) : SubSeq(str, j, j) # ch
    ELSE 0

\* str.partition(ch) and str.rpartition(ch), as <<head, sep, tail>>.
partition(str, ch) ==
    LET i == Find(str, ch) IN
    IF i = 0 THEN <<str, "", "">>
    ELSE <<SubSeq(str, 1, i - 1), ch, SubSeq(str, i + 1, Len(str))>>

rpartition(str, ch) ==
    LET i == RFind(str, ch) IN
    IF i = 0 THEN <<"", "", str>>
    ELSE <<SubSeq(str, 1, i - 1), ch, SubSeq(str, i + 1, Len(str))>>

\* str.split(ch)
RECURSIVE split(_, _)
split(str, ch) ==
    LET p == partition(str, ch) IN
    IF p[2] = "" THEN <<str>> ELSE <<p[1]>> \o split(p[3], ch)

Digits == "0123456789"

IsDigits(str) ==
    /\ Len(str) > 0
    /\ \A i \in 1 .. Len(str) : Contains(Digits, SubSeq(str, i, i))

\* int(str) of a string of digits.
RECURSIVE IntValue(_)
IntValue(str) ==
    IF str = "" THEN 0
    ELSE 10 * IntValue(SubSeq(str, 1, Len(str) - 1))
         + (Find(Digits, SubSeq(str, Len(str), Len(str))) - 1)

\* float(tok) on the tokens of the model, which are digits, digits "." digit,
\* or no number at all: whether it returns, and what, in tenths.
CanFloat(tok) ==
    \/ IsDigits(tok)
    \/ LET p == partition(tok, ".") IN
       p[2] = "." /\ IsDigits(p[1]) /\ IsDigits(p[3]) /\ Len(p[3]) = 1

\* A conversion that would drop the fraction; C14 tells it from float.
float_whole(tok) ==
    IF IsDigits(tok) THEN 10 * IntValue(tok)
    ELSE 10 * IntValue(partition(tok, ".")[1])

float(tok) ==
    IF IsDigits(tok) THEN 10 * IntValue(tok)
    ELSE LET p == partition(tok, ".") IN 10 * IntValue(p[1]) + IntValue(p[3])

\* Movie.any_loadable on a str: re.match(r"<.*>(.*)$", name) drops a prefix
\* up to the last ">", and the loader is asked for the rest.  ld is the set
\* of the names the loader finds.
LoaderName(name) ==
    IF SubSeq(name, 1, 1) = "<" /\ Contains(name, ">")
    THEN rpartition(name, ">")[3]
    ELSE name

any_loadable_str(name, ld) == LoaderName(name) \in ld

\* 2 ** int(math.ceil(math.log2(x))) for x > 1 given in tenths.
MaxExp == 3

RECURSIVE Pow2(_)
Pow2(k) == IF k = 0 THEN 1 ELSE 2 * Pow2(k - 1)

CeilPow2(tenths) ==
    Pow2(CHOOSE k \in 0 .. MaxExp :
             /\ 10 * Pow2(k) >= tenths
             /\ \A j \in 0 .. (k - 1) : 10 * Pow2(j) < tenths)

\* f"{base}@{i}{extras}.{ext}" of lines 310-317.
new_filename(filename, i) ==
    LET dot == rpartition(filename, ".")
        at == partition(dot[1], "@")
        extras == IF at[3] # "" THEN "," \o at[3] ELSE ""
    IN  at[1] \o "@" \o ToString(i) \o extras \o "." \o dot[3]

\* A search that would take the least loadable multiplier; C12 tells it from
\* find_oversampled_filename.
find_oversampled_filename_least(filename, env) ==
    IF /\ ~Contains(filename, "@")
       /\ env.automatic_oversampling # 0
       /\ env.draw
       /\ env.draw_per_virt > 10
    THEN LET max_oversample ==
                 Min(CeilPow2(env.draw_per_virt), env.automatic_oversampling)
             hits == {i \in 2 .. max_oversample :
                          any_loadable_str(new_filename(filename, i), env.ld)}
         IN  IF hits = {} THEN filename
             ELSE new_filename(filename,
                               CHOOSE i \in hits : \A j \in hits : i <= j)
    ELSE filename

\* find_oversampled_filename under env: automatic_oversampling (0 when
\* off), whether renpy.display.draw is set, its draw_per_virt in tenths, and
\* the names the loader finds.
find_oversampled_filename(filename, env) ==
    IF /\ ~Contains(filename, "@")
       /\ env.automatic_oversampling # 0
       /\ env.draw
       /\ env.draw_per_virt > 10
    THEN LET max_oversample ==
                 Min(CeilPow2(env.draw_per_virt), env.automatic_oversampling)
             hits == {i \in 2 .. max_oversample :
                          any_loadable_str(new_filename(filename, i), env.ld)}
         IN  IF hits = {} THEN filename
             ELSE new_filename(filename,
                               CHOOSE i \in hits : \A j \in hits : j <= i)
    ELSE filename

\* The text find_oversampled parses: what follows the last "@" of the part
\* before the last ".", up to the first "/", split at the commas.
Modifiers(filename) ==
    LET base == rpartition(filename, ".")[1] IN
    split(partition(rpartition(base, "@")[3], "/")[1], ",")

\* A parse that would stop at the first number; C13 and C14 tell it from
\* the loop of find_oversampled.
ParseModifiers_first(extras) ==
    IF \E i \in 1 .. Len(extras) : CanFloat(extras[i])
    THEN [raised |-> FALSE,
          oversample |->
              float(extras[CHOOSE i \in 1 .. Len(extras) :
                               /\ CanFloat(extras[i])
                               /\ \A j \in 1 .. (i - 1) : ~CanFloat(extras[j])])]
    ELSE [raised |-> TRUE, oversample |-> 0]

\* The loop of lines 347-351: every value is parsed in turn, each one
\* replacing the factor, and a value that is no number raises.
ParseModifiers(extras) ==
    IF \E i \in 1 .. Len(extras) : ~CanFloat(extras[i])
    THEN [raised |-> TRUE, oversample |-> 0]
    ELSE [raised |-> FALSE, oversample |-> float(extras[Len(extras)])]

\* find_oversampled(new, filename): the filename it returns and the factor
\* it stores in new.playing_oversample (in tenths), or that it raises, the
\* factor then staying unset (0).  oversample is new.oversample as the set
\* of its value in tenths, empty for None.
find_oversampled(oversample, filename, env) ==
    IF oversample # {}
    THEN [filename |-> filename,
          oversample |-> CHOOSE v \in oversample : TRUE,
          raised |-> FALSE]
    ELSE IF filename \in ListSources
    THEN [filename |-> filename, oversample |-> 10, raised |-> FALSE]
    ELSE LET found == find_oversampled_filename(filename, env) IN
         IF ~Contains(found, "@")
         THEN [filename |-> found, oversample |-> 10, raised |-> FALSE]
         ELSE LET stripped == IF SubSeq(found, 1, 1) = "<"
                              THEN partition(found, ">")[3]
                              ELSE found
                  parsed == ParseModifiers(Modifiers(stripped))
              IN  [filename |-> IF parsed.raised THEN None ELSE stripped,
                   oversample |-> parsed.oversample,
                   raised |-> parsed.raised]

----------------------------------------------------------------------------
(* State *)

VARIABLES
    movie,                  \* the Movie objects: slot -> its fields
    loadable,               \* the files renpy.loader.loadable finds
    replay_movie_sprites,   \* renpy.config.replay_movie_sprites
    video_image_fallback,   \* renpy.game.preferences.video_image_fallback is True
    playing,                \* backend: channel -> the source it plays, or None
    texture,                \* video.texture
    group_texture,          \* video.group_texture
    displayable_channels,   \* video.displayable_channels, as the slots registered
    channel_movie,          \* video.channel_movie
    reset_channels,         \* video.reset_channels
    last_channel_movie,     \* video.last_channel_movie
    context,                \* which context renpy.game.context() returns
    context_movie,          \* context -> its .movie
    fullscreen,             \* video.fullscreen
    rv,                     \* the step just taken, if it was a render
    up,                     \* the step just taken, if it was frequent (ran) or
                            \* one call of Movie.play
    made,                   \* the step just taken, if it made or restored a Movie
    streak,                 \* observer: per channel, the runs of update_playing
                            \* its occupant has had in a row
    gone,                   \* observer: per channel, the runs of update_playing
                            \* since it was last occupied
    shown,                  \* observer: per slot, a show event awaits a render
    pub,                    \* observer: per group, the texture last published
    cleared,                \* observer: early_interact has cleared the occupancy
                            \* map and no render has followed ("cleared");
                            \* update_playing has then run ("ran")
    config,                 \* renpy.config: single_movie_channel, auto_movie_channel
    movie_channel_serial,   \* video.movie_channel_serial
    ov,                     \* the call of find_oversampled the step made, if any
    video_ready             \* backend: the channels that report a frame ready

\* An empty dictionary keyed by channel, holding slots.
NoMovies == [c \in Channels |-> None]

\* No render in the step just taken.
NoRv ==
    [slot |-> None, kind |-> None, tex |-> NoTex, playing |-> FALSE,
     in_reset |-> FALSE, in_group |-> FALSE, not_playing |-> FALSE,
     called |-> FALSE, surf |-> FALSE, mask_surf |-> FALSE,
     got |-> NoTex, new |-> FALSE, cached |-> NoTex, redraw |-> FALSE,
     shown |-> "no", oversample |-> DefaultOversample]

\* No Movie made or restored in the step just taken.
NoMade == [slot |-> None, by |-> None]

\* No call of find_oversampled in the step just taken.
NoOv == [called |-> FALSE]

\* No frequent in the step just taken.
NoUp ==
    [ran |-> FALSE, calls |-> <<>>, cmds |-> <<>>, old |-> NoMovies,
     last |-> NoMovies, reset |-> {}, ret |-> FALSE, redraws |-> {}]

----------------------------------------------------------------------------
(* The texture cache *)

\* A get_movie_texture that would return None for a mask frame without a
\* frame of the channel; C9 tells it from get_movie_texture.
get_movie_texture_none(channel, mask_channel, side_mask, surf, mask_read) ==
    IF playing[channel] = None
    THEN [tex |-> NoTex, new |-> FALSE, texture |-> texture, mask_surf |-> FALSE]
    ELSE
        LET mask_surf == IF side_mask THEN surf
                         ELSE IF mask_channel # None THEN mask_read
                         ELSE FALSE
            tex == [ch |-> channel, stale |-> FALSE]
        IN  IF surf
            THEN [tex |-> tex, new |-> TRUE,
                  texture |-> [texture EXCEPT ![channel] = tex],
                  mask_surf |-> mask_surf]
            ELSE [tex |-> IF mask_surf THEN NoTex ELSE Get(texture, channel),
                  new |-> FALSE, texture |-> texture, mask_surf |-> mask_surf]

\* get_movie_texture (get_movie_texture_web takes the same decisions): surf
\* and mask_read tell whether read_video() of the channel and of the mask
\* channel return a frame.  Gives the texture returned, the flag returned,
\* the cache after the call and whether a mask frame was there.
get_movie_texture(channel, mask_channel, side_mask, surf, mask_read) ==
    IF playing[channel] = None
    THEN [tex |-> NoTex, new |-> FALSE, texture |-> texture, mask_surf |-> FALSE]
    ELSE
        LET mask_surf == IF side_mask THEN surf
                         ELSE IF mask_channel # None THEN mask_read
                         ELSE FALSE
            \* "if surf: alpha_munge(...) else: surf = None"
            surf2 == IF mask_surf THEN (IF surf THEN surf ELSE FALSE) ELSE surf
            tex == [ch |-> channel, stale |-> FALSE]
        IN  IF surf2
            THEN [tex |-> tex, new |-> TRUE,
                  texture |-> [texture EXCEPT ![channel] = tex],
                  mask_surf |-> mask_surf]
            ELSE [tex |-> Get(texture, channel), new |-> FALSE,
                  texture |-> texture, mask_surf |-> mask_surf]

\* What read_video() can return: no frame on a channel that plays nothing.
CanRead(channel) ==
    IF channel # None /\ playing[channel] # None THEN BOOLEAN ELSE {FALSE}

----------------------------------------------------------------------------
(* The audio backend *)

PlayCmd(src, channel, loop) ==
    [cmd |-> "play", channel |-> channel, src |-> src, loop |-> loop]
StopCmd(channel) ==
    [cmd |-> "stop", channel |-> channel, src |-> None, loop |-> FALSE]

\* renpy.audio.music.play and renpy.audio.music.stop(fadeout=0) on
\* st = [playing, texture].  A play on a channel that had stopped begins a
\* new playback: a texture still cached for it is from the earlier one.
ApplyCmd(st, c) ==
    IF c.cmd = "play"
    THEN [playing |-> [st.playing EXCEPT ![c.channel] = c.src],
          texture |-> IF c.channel \in Channels
                         /\ st.playing[c.channel] = None
                         /\ st.texture[c.channel] # Absent
                      THEN [st.texture EXCEPT ![c.channel].stale = TRUE]
                      ELSE st.texture]
    ELSE IF c.cmd = "stop"
    THEN [playing |-> [st.playing EXCEPT ![c.channel] = None],
          texture |-> st.texture]
    ELSE st

RECURSIVE RunCmds(_, _)
RunCmds(st, cmds) ==
    IF cmds = <<>> THEN st
    ELSE RunCmds(ApplyCmd(st, Head(cmds)), Tail(cmds))

----------------------------------------------------------------------------
(* Movie.play and Movie.stop *)

\* default_play_callback: the mask first, then the movie.  The backend is
\* handed the file find_oversampled picks for the source; the model keeps,
\* as what a channel plays, the source itself.
default_play_callback(old, new) ==
    LET m == movie[new] IN
    (IF m.mask # None THEN <<PlayCmd(m.mask, m.mask_channel, m.loop)>> ELSE <<>>)
    \o <<PlayCmd(m._play, m.channel, m.loop)>>

\* What find_oversampled reads when a Movie is played: automatic
\* oversampling is off, and the loader is the one of the state.
OverEnv ==
    [automatic_oversampling |-> 0, draw |-> TRUE, draw_per_virt |-> 10,
     ld |-> loadable]

\* Whether self.play(old) calls default_play_callback.
DefaultCallbackRuns(self, old) ==
    LET m == movie[self]
        old_play == IF old = None THEN None ELSE movie[old]._play
    IN  /\ m._play # None
        /\ m._play # old_play \/ replay_movie_sprites
        /\ ~m.play_callback

\* The Movie objects after the play calls among calls: default_play_callback
\* ends with find_oversampled(new, new._play), which stores the factor it
\* finds in new.playing_oversample.  (The sources and masks the
\* specifications play carry no modifier that is no number, so no call
\* raises.)
PlayedMovies(calls) ==
    [s \in Slots |->
        IF \E i \in 1 .. Len(calls) :
               /\ calls[i].op = "play"
               /\ calls[i].slot = s
               /\ DefaultCallbackRuns(s, calls[i].arg)
        THEN LET found == find_oversampled(movie[s].oversample, movie[s]._play,
                                           OverEnv)
             IN  IF found.raised THEN movie[s]
                 ELSE [movie[s] EXCEPT !.playing_oversample = found.oversample]
        ELSE movie[s]]

\* self.play_callback(old, self), the function the game gave: the call is
\* noted where the commands of the default callback would be, and the
\* backend is left as it is.
CallbackCmd(old, new) ==
    [cmd |-> "callback", channel |-> movie[new].channel,
     src |-> movie[new]._play, loop |-> movie[new].loop]

\* A play that would not look at replay_movie_sprites; C18 tells it from
\* Movie.play.
MoviePlay_unforced(self, old) ==
    LET m == movie[self]
        old_play == IF old = None THEN None ELSE movie[old]._play
    IN  IF m._play = None /\ old_play = None THEN <<>>
        ELSE IF m._play # old_play
        THEN IF m._play # None
             THEN IF m.play_callback
                  THEN <<CallbackCmd(old, self)>>
                  ELSE default_play_callback(old, self)
             ELSE <<StopCmd(m.channel)>>
                  \o (IF m.mask # None THEN <<StopCmd(m.mask_channel)>> ELSE <<>>)
        ELSE <<>>

\* Movie.play(old), as the backend commands it issues.
MoviePlay(self, old) ==
    LET m == movie[self]
        old_play == IF old = None THEN None ELSE movie[old]._play
    IN  IF m._play = None /\ old_play = None THEN <<>>
        ELSE IF m._play # old_play \/ replay_movie_sprites
        THEN IF m._play # None
             THEN IF m.play_callback
                  THEN <<CallbackCmd(old, self)>>
                  ELSE default_play_callback(old, self)
             ELSE <<StopCmd(m.channel)>>
                  \o (IF m.mask # None THEN <<StopCmd(m.mask_channel)>> ELSE <<>>)
        ELSE <<>>

\* Movie.stop(), as the backend commands it issues (ensure_channels has
\* defined both channels).
MovieStop(self) ==
    LET m == movie[self] IN
    IF m._play # None
    THEN <<StopCmd(m.channel)>>
         \o (IF m.mask # None THEN <<StopCmd(m.mask_channel)>> ELSE <<>>)
    ELSE <<>>

----------------------------------------------------------------------------
(* update_playing *)

PlayCall(m, old, c) == [op |-> "play", slot |-> m, arg |-> old, chan |-> c]
StopCall(m, c) == [op |-> "stop", slot |-> m, arg |-> None, chan |-> c]

\* A first loop that would look at old and last before the Reset Set; C15
\* tells it from the loop of update_playing.
SyncPlay_unforced(c) ==
    LET m == channel_movie[c]
        old == context_movie[context][c]
        last == last_channel_movie[c]
    IN  IF m = None THEN <<>>
        ELSE IF old = m \/ last = m THEN <<>>
        ELSE <<PlayCall(m, old, c)>>

\* A first loop that would try the branch of the looping Movie before the
\* one that compares old; C22 tells it from the loop of update_playing.
SyncPlay_last(c) ==
    LET m == channel_movie[c]
        old == context_movie[context][c]
        last == last_channel_movie[c]
    IN  IF m = None THEN <<>>
        ELSE IF c \in reset_channels /\ replay_movie_sprites
        THEN <<PlayCall(m, old, c)>>
        ELSE IF old = m \/ last = m THEN <<>>
        ELSE IF movie[m].loop /\ last # m THEN <<PlayCall(m, last, c)>>
        ELSE IF old # m THEN <<PlayCall(m, old, c)>>
        ELSE <<>>

\* The body of the first loop for the key c of channel_movie.
SyncPlay(c) ==
    LET m == channel_movie[c]
        old == context_movie[context][c]
        last == last_channel_movie[c]
    IN  IF m = None THEN <<>>
        ELSE IF c \in reset_channels /\ replay_movie_sprites
        THEN <<PlayCall(m, old, c)>>
        ELSE IF old = m \/ last = m THEN <<>>
        ELSE IF old # m THEN <<PlayCall(m, old, c)>>
        ELSE IF movie[m].loop /\ last # m THEN <<PlayCall(m, last, c)>>
        ELSE <<>>

\* A second loop that would stop the slot of the last run whether or not its
\* channel is in the occupancy map; C16 tells it from the loop of
\* update_playing.
SyncStopLast_present(c) ==
    LET m == last_channel_movie[c] IN
    IF m # None THEN <<StopCall(m, c)>> ELSE <<>>

\* The body of the loop over last_channel_movie for its key c.
SyncStopLast(c) ==
    LET m == last_channel_movie[c] IN
    IF m # None /\ channel_movie[c] = None THEN <<StopCall(m, c)>> ELSE <<>>

\* The channels the loop over last_channel_movie adds to stopped.
Stopped ==
    {c \in Channels : last_channel_movie[c] # None /\ channel_movie[c] = None}

\* A third loop that would not look at stopped; C3 tells it from the loop
\* of update_playing.
SyncStopOld_twice(c) ==
    LET m == context_movie[context][c] IN
    IF m # None /\ channel_movie[c] = None
    THEN <<StopCall(m, c)>>
    ELSE <<>>

\* The body of the loop over the context's movie for its key c.
SyncStopOld(c) ==
    LET m == context_movie[context][c] IN
    IF m # None /\ channel_movie[c] = None /\ c \notin Stopped
    THEN <<StopCall(m, c)>>
    ELSE <<>>

\* The calls of each loop, the keys taken in dictionary order.
AllPlayCalls ==
    LET f[i \in 0 .. Len(ChanSeq)] ==
            IF i = 0 THEN <<>> ELSE f[i - 1] \o SyncPlay(ChanSeq[i])
    IN  f[Len(ChanSeq)]
AllStopLastCalls ==
    LET f[i \in 0 .. Len(ChanSeq)] ==
            IF i = 0 THEN <<>> ELSE f[i - 1] \o SyncStopLast(ChanSeq[i])
    IN  f[Len(ChanSeq)]
AllStopOldCalls ==
    LET f[i \in 0 .. Len(ChanSeq)] ==
            IF i = 0 THEN <<>> ELSE f[i - 1] \o SyncStopOld(ChanSeq[i])
    IN  f[Len(ChanSeq)]

\* The calls update_playing makes on Movie objects, in order.
UpdateCalls == AllPlayCalls \o AllStopLastCalls \o AllStopOldCalls

\* The backend commands of a call.
CallCmds(call) ==
    IF call.op = "play" THEN MoviePlay(call.slot, call.arg)
    ELSE MovieStop(call.slot)

RECURSIVE CallsCmds(_)
CallsCmds(calls) ==
    IF calls = <<>> THEN <<>>
    ELSE CallCmds(Head(calls)) \o CallsCmds(Tail(calls))

----------------------------------------------------------------------------
(* The entry points of video.py.  Each sets rv, up and made to tell what   *)
(* the step was; the observers are stepped by the specifications.         *)

\* An early_interact whose clear would reach the maps update_playing left,
\* as it would had they been the occupancy map itself and not a copy; C17
\* tells it from early_interact.
EarlyInteract_aliased ==
    /\ displayable_channels' = {}
    /\ channel_movie' = NoMovies
    /\ last_channel_movie' = NoMovies
    /\ context_movie' = [context_movie EXCEPT ![context] = NoMovies]
    /\ rv' = NoRv /\ up' = NoUp /\ made' = NoMade
    /\ UNCHANGED <<movie, loadable, replay_movie_sprites, video_image_fallback,
                   playing, texture, group_texture, reset_channels, context,
                   fullscreen>>

\* early_interact()
EarlyInteract ==
    /\ displayable_channels' = {}
    /\ channel_movie' = NoMovies
    /\ rv' = NoRv /\ up' = NoUp /\ made' = NoMade
    /\ UNCHANGED <<movie, loadable, replay_movie_sprites, video_image_fallback,
                   playing, texture, group_texture, reset_channels,
                   last_channel_movie, context, context_movie, fullscreen>>

\* interact()
Interact ==
    /\ texture' = [c \in Channels |->
                      IF playing[c] = None THEN Absent ELSE texture[c]]
    /\ fullscreen' = IF playing["movie"] # None
                     THEN ~ \E s \in displayable_channels :
                                movie[s].channel = "movie"
                     ELSE FALSE
    /\ rv' = NoRv /\ up' = NoUp /\ made' = NoMade
    /\ UNCHANGED <<movie, loadable, replay_movie_sprites, video_image_fallback,
                   playing, group_texture, displayable_channels, channel_movie,
                   reset_channels, last_channel_movie, context, context_movie>>

\* Movie.per_interact()
PerInteract(s) ==
    /\ displayable_channels' = displayable_channels \cup {s}
    /\ rv' = NoRv /\ up' = NoUp /\ made' = NoMade
    /\ UNCHANGED <<movie, loadable, replay_movie_sprites, video_image_fallback,
                   playing, texture, group_texture, channel_movie,
                   reset_channels, last_channel_movie, context, context_movie,
                   fullscreen>>

\* A show event that would leave the Reset Set alone; C7 tells it from
\* Movie.set_transform_event.
SetTransformEvent_skip(s) ==
    /\ reset_channels' = reset_channels
    /\ rv' = NoRv /\ up' = NoUp /\ made' = NoMade
    /\ UNCHANGED <<movie, loadable, replay_movie_sprites, video_image_fallback,
                   playing, texture, group_texture, displayable_channels,
                   channel_movie, last_channel_movie, context, context_movie,
                   fullscreen>>

\* Movie.set_transform_event("show")
SetTransformEvent(s) ==
    /\ reset_channels' = reset_channels \cup {movie[s].channel}
    /\ rv' = NoRv /\ up' = NoUp /\ made' = NoMade
    /\ UNCHANGED <<movie, loadable, replay_movie_sprites, video_image_fallback,
                   playing, texture, group_texture, displayable_channels,
                   channel_movie, last_channel_movie, context, context_movie,
                   fullscreen>>

\* Movie(...) is evaluated again: a new Movie stands for the slot.
Construct(s) ==
    /\ movie' = [movie EXCEPT ![s] = MovieInit(MovieArgs(s), loadable)]
    /\ rv' = NoRv /\ up' = NoUp /\ made' = [slot |-> s, by |-> "__init__"]
    /\ UNCHANGED <<loadable, replay_movie_sprites, video_image_fallback, playing,
                   texture, group_texture, displayable_channels, channel_movie,
                   reset_channels, last_channel_movie, context, context_movie,
                   fullscreen>>

\* The states a Movie can be restored from: as saved with playback enabled,
\* as saved with playback disabled, or as saved by a version that had no
\* _original_play.
SavedStates(s) ==
    LET m == movie[s]
        p == MovieArgs(s).play
    IN  {[m EXCEPT !._original_play = p, !._play = p],
         [m EXCEPT !._original_play = p, !._play = None],
         [m EXCEPT !._original_play = None, !._play = p]}

\* Movie.after_setstate() on the restored Movie
AfterSetstate(s, saved) ==
    /\ movie' = [movie EXCEPT ![s] = after_setstate(saved, loadable)]
    /\ rv' = NoRv /\ up' = NoUp /\ made' = [slot |-> s, by |-> "after_setstate"]
    /\ UNCHANGED <<loadable, replay_movie_sprites, video_image_fallback, playing,
                   texture, group_texture, displayable_channels, channel_movie,
                   reset_channels, last_channel_movie, context, context_movie,
                   fullscreen>>

\* Movie.render, the not_playing it works out: the channel plays nothing,
\* unless the channel awaits a restart or the group holds an entry.
NotPlaying(s) ==
    LET m == movie[s] IN
    IF m.group # None /\ group_texture[m.group] # Absent THEN FALSE
    ELSE IF m.channel \in reset_channels THEN FALSE
    ELSE playing[m.channel] = None

\* A render that would draw the start image also when not_playing; C4 tells
\* it from Movie.render.
RenderKind_start(image, start_image, not_playing, tex) ==
    IF image /\ not_playing THEN "image"
    ELSE IF ~ not_playing /\ tex # NoTex THEN "tex"
    ELSE IF start_image THEN "start_image"
    ELSE "empty"

\* Movie.render, what it draws: tex is the texture it has (NoTex for none).
RenderKind(image, start_image, not_playing, tex) ==
    IF image /\ not_playing THEN "image"
    ELSE IF ~ not_playing /\ tex # NoTex THEN "tex"
    ELSE IF ~ not_playing /\ start_image THEN "start_image"
    ELSE "empty"

\* A render that would ask for no redraw; C19 tells it from Movie.render.
RenderRedraws_never(kind) == FALSE

\* Whether the render that draws kind reaches renpy.display.render.redraw(
\* self, 0.1) at its end: the render of the fallback image returns before it.
RenderRedraws(kind) == kind # "image"

\* Movie.render(width, height, st, at): the occupancy, what is drawn, and
\* the redraw it asks for.  surf and mask_read are what read_video() gives.
Render(s, surf, mask_read) ==
    LET m == movie[s]
        not_playing == NotPlaying(s)
        seen == [NoRv EXCEPT !.slot = s,
                             !.playing = playing[m.channel] # None,
                             !.in_reset = m.channel \in reset_channels,
                             !.in_group = m.group # None
                                          /\ group_texture[m.group] # Absent,
                             !.not_playing = not_playing,
                             !.shown = shown[s]]
    IN
    /\ channel_movie' = IF m._play # None /\ ~ video_image_fallback
                        THEN [channel_movie EXCEPT ![m.channel] = s]
                        ELSE channel_movie
    /\ IF RenderKind(m.image, m.start_image, not_playing, NoTex) = "image"
       THEN /\ surf = FALSE /\ mask_read = FALSE
            /\ rv' = [seen EXCEPT !.kind = "image",
                                  !.redraw = RenderRedraws("image")]
            /\ UNCHANGED <<texture, group_texture>>
       ELSE LET g == get_movie_texture(m.channel, m.mask_channel, m.side_mask,
                                       surf, mask_read)
                tex == IF m.group # None /\ g.tex = NoTex
                       THEN Get(group_texture, m.group)
                       ELSE g.tex
                kind == RenderKind(m.image, m.start_image, not_playing, tex)
            IN  /\ texture' = g.texture
                /\ group_texture' = IF m.group # None /\ g.tex # NoTex
                                    THEN [group_texture EXCEPT ![m.group] = g.tex]
                                    ELSE group_texture
                /\ rv' = [seen EXCEPT !.kind = kind,
                                      !.tex = IF kind = "tex" THEN tex ELSE NoTex,
                                      !.called = TRUE, !.surf = surf,
                                      !.mask_surf = g.mask_surf, !.got = g.tex,
                                      !.new = g.new,
                                      !.cached = Get(texture, m.channel),
                                      !.redraw = RenderRedraws(kind),
                                      !.oversample =
                                          IF kind = "tex"
                                          THEN m.playing_oversample
                                          ELSE DefaultOversample]
    /\ up' = NoUp /\ made' = NoMade
    /\ UNCHANGED <<movie, loadable, replay_movie_sprites, video_image_fallback,
                   playing, displayable_channels, reset_channels,
                   last_channel_movie, context, context_movie, fullscreen>>

\* render_movie("movie", width, height), called to draw a fullscreen movie
RenderMovie(surf) ==
    LET g == get_movie_texture("movie", None, FALSE, surf, FALSE) IN
    /\ texture' = g.texture
    /\ rv' = [NoRv EXCEPT !.kind = IF g.tex = NoTex THEN "none" ELSE "tex",
                          !.tex = g.tex, !.playing = playing["movie"] # None,
                          !.called = TRUE, !.surf = surf, !.got = g.tex,
                          !.new = g.new, !.cached = Get(texture, "movie")]
    /\ up' = NoUp /\ made' = NoMade
    /\ UNCHANGED <<movie, loadable, replay_movie_sprites, video_image_fallback,
                   playing, group_texture, displayable_channels, channel_movie,
                   reset_channels, last_channel_movie, context, context_movie,
                   fullscreen>>

\* A cycle that would carry no entry over; C6 tells it from frequent().
CycleGroups_drop ==
    [g \in Groups |-> Absent]

\* A cycle that would keep every entry, registered or not; C20 tells it
\* from frequent().
CycleGroups_keep ==
    [g \in Groups |-> group_texture[g]]

\* The cycle of the group textures in frequent(): the groups of the
\* registered movies keep their entry, or get one holding None.
CycleGroups ==
    [g \in Groups |->
        IF \E s \in displayable_channels : movie[s].group = g
        THEN Get(group_texture, g)
        ELSE Absent]

\* c.video_ready() of the channel named name.
VideoReady(name) == name \in video_ready

\* What frequent() returns (None, which it returns when nothing is
\* registered, counting as false).
FrequentReturn_ready == VideoReady("movie")

FrequentReturn == fullscreen /\ VideoReady("movie")

\* The Movies frequent() asks a redraw after 0 for: every registered one,
\* when no movie is fullscreen and the channel and the mask channel of every
\* registered one have a frame ready.
FrequentRedraws ==
    IF /\ ~fullscreen
       /\ \A s \in displayable_channels :
              /\ VideoReady(movie[s].channel)
              /\ movie[s].mask_channel # None
                     => VideoReady(movie[s].mask_channel)
    THEN displayable_channels
    ELSE {}

\* frequent(): update_playing(), then the cycle of the group textures, then
\* the redraws and the value returned.
Frequent ==
    LET calls == UpdateCalls
        cmds == CallsCmds(calls)
        st == RunCmds([playing |-> playing, texture |-> texture], cmds)
    IN
    /\ playing' = st.playing
    /\ texture' = st.texture
    /\ context_movie' = [context_movie EXCEPT ![context] = channel_movie]
    /\ last_channel_movie' = channel_movie
    /\ reset_channels' = {}
    /\ group_texture' = CycleGroups
    /\ up' = [ran |-> TRUE, calls |-> calls, cmds |-> cmds,
              old |-> context_movie[context], last |-> last_channel_movie,
              reset |-> reset_channels, ret |-> FrequentReturn,
              redraws |-> FrequentRedraws]
    /\ movie' = PlayedMovies(calls)
    /\ rv' = NoRv /\ made' = NoMade
    /\ UNCHANGED <<loadable, replay_movie_sprites, video_image_fallback,
                   displayable_channels, channel_movie, context, fullscreen>>

----------------------------------------------------------------------------
(* The collaborators *)

\* A playback ends: movie_stop() or renpy.audio.music.stop called by the
\* game, or a playback that does not loop reaching its end.
MusicStop(c) ==
    /\ playing[c] # None
    /\ playing' = [playing EXCEPT ![c] = None]
    /\ rv' = NoRv /\ up' = NoUp /\ made' = NoMade
    /\ UNCHANGED <<movie, loadable, replay_movie_sprites, video_image_fallback,
                   texture, group_texture, displayable_channels, channel_movie,
                   reset_channels, last_channel_movie, context, context_movie,
                   fullscreen>>

\* A file appears in or disappears from what the loader finds.
LoaderChange(f) ==
    /\ loadable' = IF f \in loadable THEN loadable \ {f} ELSE loadable \cup {f}
    /\ rv' = NoRv /\ up' = NoUp /\ made' = NoMade
    /\ UNCHANGED <<movie, replay_movie_sprites, video_image_fallback, playing,
                   texture, group_texture, displayable_channels, channel_movie,
                   reset_channels, last_channel_movie, context, context_movie,
                   fullscreen>>

\* renpy.game.context() starts to return another context.
ContextSwitch(k) ==
    /\ k # context
    /\ context' = k
    /\ rv' = NoRv /\ up' = NoUp /\ made' = NoMade
    /\ UNCHANGED <<movie, loadable, replay_movie_sprites, video_image_fallback,
                   playing, texture, group_texture, displayable_channels,
                   channel_movie, reset_channels, last_channel_movie,
                   context_movie, fullscreen>>

----------------------------------------------------------------------------
(* The observers: history the properties speak of.  They read the program; *)
(* no entry point reads them, but for the note a render leaves in rv of   *)
(* the show event it follows.                                              *)

obs == <<streak, gone, shown, pub, cleared>>

\* The parts of the program that only the specifications of the channel
\* names and of oversampling exercise.
other == <<config, movie_channel_serial, ov, video_ready>>

ZeroStreak ==
    [runs |-> 0, plays |-> 0, stops |-> 0, forced |-> FALSE, alone |-> FALSE,
     playable |-> FALSE]
ZeroGone ==
    [occ |-> FALSE, absent |-> 0, stops |-> 0, ctx |-> 0, moved |-> FALSE,
     differ |-> FALSE]

\* The commands of one kind a run sent to a channel.
CountCmds(cmds, kind, c) ==
    Cardinality({i \in 1 .. Len(cmds) : cmds[i].cmd = kind /\ cmds[i].channel = c})

\* The calls of one kind a run made for a channel.
CountCalls(calls, kind, c) ==
    Cardinality({i \in 1 .. Len(calls) : calls[i].op = kind /\ calls[i].chan = c})

\* A run of update_playing: per channel, how many runs in a row its
\* occupant has now had, and the play and stop commands the channel got in
\* them.  forced: a run after the first found the channel in the Reset Set
\* with forced replay on.  alone: no slot held the channel in the run before
\* the first.  playable: the occupant had a play source in each run.
ObserveStreak ==
    streak' = [c \in Channels |->
        LET m == channel_movie[c]
            prev == last_channel_movie[c]
            p == CountCmds(up'.cmds, "play", c)
            q == CountCmds(up'.cmds, "stop", c)
            h == streak[c]
        IN  IF m = None THEN ZeroStreak
            ELSE IF prev = m
            THEN [runs |-> Min(h.runs + 1, MaxRuns),
                  plays |-> Min(h.plays + p, MaxCount),
                  stops |-> Min(h.stops + q, MaxCount),
                  forced |-> h.forced \/ (c \in reset_channels /\ replay_movie_sprites),
                  alone |-> h.alone,
                  playable |-> h.playable /\ movie[m]._play # None]
            ELSE [runs |-> 1, plays |-> Min(p, MaxCount), stops |-> Min(q, MaxCount),
                  forced |-> FALSE, alone |-> prev = None,
                  playable |-> movie[m]._play # None]]

\* A run of update_playing: per channel that has been occupied, how many
\* runs it has now been absent for and the stop() calls made for it in them.
\* ctx: the context of the first of these runs.  moved: a later one was made
\* in another context.  differ: the first found different slots for the
\* channel in the context's map and in last_channel_movie.
ObserveGone ==
    gone' = [c \in Channels |->
        LET h == gone[c]
            n == CountCalls(up'.calls, "stop", c)
        IN  IF channel_movie[c] # None
            THEN [ZeroGone EXCEPT !.occ = TRUE]
            ELSE IF h.occ
            THEN [occ |-> TRUE,
                  absent |-> Min(h.absent + 1, MaxRuns),
                  stops |-> Min(h.stops + n, MaxCount),
                  ctx |-> IF h.absent = 0 THEN context ELSE h.ctx,
                  moved |-> h.moved \/ (h.absent > 0 /\ context # h.ctx),
                  differ |-> IF h.absent = 0
                             THEN /\ context_movie[context][c] # None
                                  /\ last_channel_movie[c] # None
                                  /\ context_movie[context][c] # last_channel_movie[c]
                             ELSE h.differ]
            ELSE h]

\* A show event awaits the slot's next render ("shown"); update_playing has
\* run since ("synced").
ShownAtEvent(s) == shown' = [shown EXCEPT ![s] = "shown"]
ShownAtRender(s) == shown' = [shown EXCEPT ![s] = "no"]
ShownAtFrequent ==
    shown' = [s \in Slots |-> IF shown[s] = "shown" THEN "synced" ELSE shown[s]]

\* The texture a slot last published to its group; forgotten by a tick in
\* which no slot of the group is registered.
PubAtRender(s) ==
    pub' = IF movie[s].group # None /\ rv'.got # NoTex
           THEN [pub EXCEPT ![movie[s].group] = rv'.got]
           ELSE pub
PubAtFrequent ==
    pub' = [g \in Groups |->
               IF \E s \in displayable_channels : movie[s].group = g
               THEN pub[g] ELSE NoTex]

\* Whether update_playing has run on an occupancy map that early_interact
\* had cleared and no render had written to since.
ClearedAtEarlyInteract == cleared' = "cleared"
ClearedAtRender(s) ==
    cleared' = IF movie[s]._play # None /\ ~video_image_fallback THEN "no"
               ELSE cleared
ClearedAtFrequent == cleared' = IF cleared = "cleared" THEN "ran" ELSE cleared

----------------------------------------------------------------------------
(* Initial states *)

Init ==
    /\ loadable \in SUBSET Files
    /\ movie = [s \in Slots |-> MovieInit(MovieArgs(s), loadable)]
    /\ replay_movie_sprites \in BOOLEAN
    /\ video_image_fallback \in BOOLEAN
    /\ playing = [c \in AllChannels |-> None]
    /\ texture = [c \in Channels |-> Absent]
    /\ group_texture = [g \in Groups |-> Absent]
    /\ displayable_channels = {}
    /\ channel_movie = NoMovies
    /\ reset_channels = {}
    /\ last_channel_movie = NoMovies
    /\ context = 1
    /\ context_movie = [k \in Contexts |-> NoMovies]
    /\ fullscreen = FALSE
    /\ rv = NoRv
    /\ up = NoUp
    /\ made = NoMade
    /\ streak = [c \in Channels |-> ZeroStreak]
    /\ gone = [c \in Channels |-> ZeroGone]
    /\ shown = [s \in Slots |-> "no"]
    /\ pub = [g \in Groups |-> NoTex]
    /\ cleared = "no"
    /\ config = DefaultConfig
    /\ movie_channel_serial = 0
    /\ ov = NoOv
    /\ video_ready = {}

vars == <<movie, loadable, replay_movie_sprites, video_image_fallback, playing,
          texture, group_texture, displayable_channels, channel_movie,
          reset_channels, last_channel_movie, context, context_movie, fullscreen,
          rv, up, made, streak, gone, shown, pub, cleared, config,
          movie_channel_serial, ov, video_ready>>

----------------------------------------------------------------------------------------------------------------------------------------
(* SpecSync: the synchroniser.  Two movies share the channel "movie" and   *)
(* the context changes.  The decoder delivers no frame: update_playing     *)
(* reads no texture.                                                       *)

SyncSlots == {"A", "B"}

SyncEarlyInteract ==
    /\ EarlyInteract /\ ClearedAtEarlyInteract
    /\ UNCHANGED <<streak, gone, shown, pub>> /\ UNCHANGED other
SyncRender(s) ==
    /\ Render(s, FALSE, FALSE) /\ ClearedAtRender(s)
    /\ UNCHANGED <<streak, gone, shown, pub>> /\ UNCHANGED other
SyncShow(s) == SetTransformEvent(s) /\ UNCHANGED obs /\ UNCHANGED other
SyncFrequent ==
    /\ Frequent /\ ObserveStreak /\ ObserveGone /\ ClearedAtFrequent
    /\ UNCHANGED <<shown, pub>> /\ UNCHANGED other
SyncContextSwitch(k) == ContextSwitch(k) /\ UNCHANGED obs /\ UNCHANGED other
SyncMusicStop(c) == MusicStop(c) /\ UNCHANGED obs /\ UNCHANGED other

NextSync ==
    \/ SyncEarlyInteract
    \/ \E s \in SyncSlots : SyncRender(s)
    \/ \E s \in SyncSlots : SyncShow(s)
    \/ SyncFrequent
    \/ \E k \in Contexts : SyncContextSwitch(k)
    \/ \E c \in Channels : SyncMusicStop(c)

SpecSync == Init /\ [][NextSync]_vars

\* The slot update_playing last found on the channel c.
Occupant(c) == last_channel_movie[c]

\* C1: a looping slot with a playable source that alone holds a channel in
\* consecutive runs of update_playing, from the run in which it takes the
\* channel on, gets exactly one play command, and the channel no stop
\* command (no show event with forced replay in the runs after the first).
C1_OnePlayPerOccupancy ==
    \A c \in Channels :
        LET h == streak[c] IN
        (/\ Occupant(c) # None
         /\ movie[Occupant(c)].loop
         /\ h.runs >= 1 /\ h.playable /\ h.alone /\ ~ h.forced)
        => (h.plays = 1 /\ h.stops = 0)

\* The calls m.play(old) a run made.
PlayCallsOf(calls, m, old) ==
    {i \in 1 .. Len(calls) :
        calls[i].op = "play" /\ calls[i].slot = m /\ calls[i].arg = old}

\* C2: when update_playing finds a slot on a channel whose occupant in the
\* previous redraw (the context's map) was another slot, it calls play on
\* the new slot with the old one exactly once, calls play on the old one
\* never, and stop for the channel never.
C2_ReplacePlaysOnce ==
    \A c \in Channels :
        (/\ up.ran
         /\ Occupant(c) # None /\ up.old[c] # None
         /\ Occupant(c) # up.old[c])
        => /\ Cardinality(PlayCallsOf(up.calls, Occupant(c), up.old[c])) = 1
           /\ \A i \in 1 .. Len(up.calls) :
                  ~ (up.calls[i].op = "play" /\ up.calls[i].slot = up.old[c])
           /\ CountCalls(up.calls, "stop", c) = 0

\* C3, as stated: for a channel that was occupied and has been absent in
\* every run of update_playing since, stop() has been called exactly once.
C3_StoppedExactlyOnce ==
    \A c \in Channels :
        (gone[c].occ /\ gone[c].absent >= 1) => gone[c].stops = 1

\* C3, amended: stop() has been called exactly once for such a channel as
\* long as the runs since were made in one context, at least once in any
\* case, and no single run calls stop() twice for one channel.
C3_StoppedOnceInContext ==
    \A c \in Channels :
        /\ (gone[c].occ /\ gone[c].absent >= 1) => gone[c].stops >= 1
        /\ (gone[c].occ /\ gone[c].absent >= 1 /\ ~ gone[c].moved)
           => gone[c].stops = 1
        /\ up.ran => CountCalls(up.calls, "stop", c) <= 1

\* A channel absent for two runs made in one context, the first of which
\* found different slots in the context's map and in last_channel_movie.
C3_Witness ==
    \E c \in Channels :
        /\ gone[c].occ /\ gone[c].absent >= 2 /\ ~ gone[c].moved
        /\ gone[c].differ /\ gone[c].stops = 1

\* The calls a run made for the channel c, in order.
CallsFor(calls, c) == SelectSeq(calls, LAMBDA call : call.chan = c)

C17_MapsAfterRun ==
    [][ /\ up'.ran =>
               /\ channel_movie' = channel_movie
               /\ last_channel_movie' = channel_movie
               /\ context_movie'[context'] = channel_movie
               /\ reset_channels' = {}
        /\ ~up'.ran =>
               /\ last_channel_movie' = last_channel_movie
               /\ context_movie' = context_movie
      ]_vars

\* early_interact has cleared the occupancy map after a run that found A in
\* it, and both maps still hold A.
C17_Witness ==
    /\ ~up.ran
    /\ channel_movie = NoMovies
    /\ cleared = "cleared"
    /\ reset_channels = {}
    /\ last_channel_movie["movie"] = "A"
    /\ context_movie[context]["movie"] = "A"

----------------------------------------------------------------------------
(* SpecLoad: construction and state restore, while the loader's answers   *)
(* change.                                                                 *)

LoadConstruct(s) == Construct(s) /\ UNCHANGED obs /\ UNCHANGED other
LoadAfterSetstate(s, saved) ==
    AfterSetstate(s, saved) /\ UNCHANGED obs /\ UNCHANGED other
LoadLoaderChange(f) == LoaderChange(f) /\ UNCHANGED obs /\ UNCHANGED other

NextLoad ==
    \/ \E s \in Slots : LoadConstruct(s)
    \/ \E s \in Slots : \E saved \in SavedStates(s) : LoadAfterSetstate(s, saved)
    \/ \E f \in Files : LoadLoaderChange(f)

SpecLoad == Init /\ [][NextLoad]_vars

----------------------------------------------------------------------------
(* SpecRender: one render of a Movie, from every combination of what it   *)
(* reads: its image, start image, group and mask, what the backend plays, *)
(* the texture cache, the group textures and the Reset Set.                *)

RenderSlot == "Y"

RenderArgs ==
    {[MovieArgs(RenderSlot) EXCEPT !.image = i, !.start_image = si, !.group = g,
                                   !.mask = mk[1], !.side_mask = mk[2]] :
        i \in BOOLEAN, si \in BOOLEAN, g \in Groups \cup {None},
        mk \in {<<None, FALSE>>, <<"m1", FALSE>>, <<None, TRUE>>}}

InitRender ==
    /\ loadable \in {{}, Files}
    /\ \E a \in RenderArgs :
          movie = [s \in Slots |->
                      MovieInit(IF s = RenderSlot THEN a ELSE MovieArgs(s), loadable)]
    /\ replay_movie_sprites = FALSE
    /\ video_image_fallback = FALSE
    /\ \E p \in BOOLEAN, q \in BOOLEAN :
          playing = [c \in AllChannels |->
                        IF c = "y" /\ p THEN "L12"
                        ELSE IF c = "y_mask" /\ q THEN "m1"
                        ELSE None]
    /\ \E t \in {Absent, [ch |-> "y", stale |-> FALSE]} :
          texture = [c \in Channels |-> IF c = "y" THEN t ELSE Absent]
    /\ group_texture \in [Groups -> {Absent, NoTex, [ch |-> "movie", stale |-> FALSE]}]
    /\ displayable_channels = {}
    /\ channel_movie = NoMovies
    /\ reset_channels \in SUBSET {"y"}
    /\ last_channel_movie = NoMovies
    /\ context = 1
    /\ context_movie = [k \in Contexts |-> NoMovies]
    /\ fullscreen = FALSE
    /\ rv = NoRv
    /\ up = NoUp
    /\ made = NoMade
    /\ streak = [c \in Channels |-> ZeroStreak]
    /\ gone = [c \in Channels |-> ZeroGone]
    /\ shown = [s \in Slots |-> "no"]
    /\ pub = [g \in Groups |-> NoTex]
    /\ cleared = "no"
    /\ config = DefaultConfig
    /\ movie_channel_serial = 0
    /\ ov = NoOv
    /\ video_ready = {}

OneRender(surf, mask_read) ==
    Render(RenderSlot, surf, mask_read) /\ UNCHANGED obs /\ UNCHANGED other

NextRender ==
    \E surf \in CanRead("y"), mask_read \in CanRead("y_mask") :
        OneRender(surf, mask_read)

SpecRender == InitRender /\ [][NextRender]_vars

\* What the slot s draws by the priority of C4, from the state before the
\* render and the texture got that get_movie_texture returned in it.
PriorityKind(s, got) ==
    LET m == movie[s]
        in_group == m.group # None /\ group_texture[m.group] # Absent
        not_playing == /\ playing[m.channel] = None
                       /\ m.channel \notin reset_channels
                       /\ ~ in_group
        tex == IF got # NoTex THEN got
               ELSE IF m.group # None THEN Get(group_texture, m.group)
               ELSE NoTex
    IN  IF m.image /\ not_playing THEN "image"
        ELSE IF tex # NoTex /\ ~ not_playing THEN "tex"
        ELSE IF m.start_image /\ ~ not_playing THEN "start_image"
        ELSE "empty"

\* C4: every render draws what the priority gives: the fallback image if
\* there is one and not_playing, else the texture, its own or the group's,
\* if there is one and not not_playing, else the start image if there is
\* one and not not_playing, else an empty surface.
C4_RenderPriority ==
    [][rv'.slot # None
       => /\ rv'.kind \in {"image", "tex", "start_image", "empty"}
          /\ rv'.kind = PriorityKind(rv'.slot, rv'.got)
          /\ rv'.kind = "tex" =>
                rv'.tex = (IF rv'.got # NoTex THEN rv'.got
                           ELSE Get(group_texture, movie[rv'.slot].group))]_vars

\* A render that draws the fallback image while the cache holds a texture
\* for the channel.
C4_Witness ==
    /\ rv.slot = RenderSlot /\ rv.kind = "image"
    /\ texture[movie[RenderSlot].channel] # Absent

\* C19, as stated: every render asks for a redraw of the Movie after 0.1,
\* the render that returns the fallback image too.
C19_AlwaysRedraws == rv.slot # None => rv.redraw

\* C19, amended: a render asks for a redraw of the Movie after 0.1 on every
\* path but the one that returns the fallback image, which asks for none.
C19_RedrawsUnlessImage == rv.slot # None => (rv.redraw <=> rv.kind # "image")

\* A render of the start image asks for the redraw.
C19_Witness == rv.slot # None /\ rv.kind = "start_image" /\ rv.redraw

----------------------------------------------------------------------------
(* SpecTex: the texture cache, the group textures and the Reset Set.  Two *)
(* movies of one group, each on a channel of its own, in one context; the *)
(* decoder may or may not deliver a frame to a render.                     *)

TexSlots == {"A", "Y"}

\* The slot that gets show events.
ShowSlots == {"A"}

\* The loader finds both files, or "f2" alone: the source of A is then
\* unresolvable, that of Y is not.  Forced replay and the image preference
\* are off.
InitTex ==
    /\ Init
    /\ loadable \in {{"f2"}, Files}
    /\ ~ replay_movie_sprites
    /\ ~ video_image_fallback

TexEarlyInteract == EarlyInteract /\ UNCHANGED obs /\ UNCHANGED other
TexInteract == Interact /\ UNCHANGED obs /\ UNCHANGED other
TexPerInteract(s) == PerInteract(s) /\ UNCHANGED obs /\ UNCHANGED other
TexShow(s) ==
    /\ SetTransformEvent(s) /\ ShownAtEvent(s)
    /\ UNCHANGED <<streak, gone, pub, cleared>> /\ UNCHANGED other
TexRender(s, surf, mask_read) ==
    /\ Render(s, surf, mask_read)
    /\ ShownAtRender(s) /\ PubAtRender(s)
    /\ UNCHANGED <<streak, gone, cleared>> /\ UNCHANGED other
TexRenderMovie(surf) == RenderMovie(surf) /\ UNCHANGED obs /\ UNCHANGED other
TexFrequent ==
    /\ Frequent /\ ShownAtFrequent /\ PubAtFrequent
    /\ UNCHANGED <<streak, gone, cleared>> /\ UNCHANGED other
TexMusicStop(c) == MusicStop(c) /\ UNCHANGED obs /\ UNCHANGED other

NextTex ==
    \/ TexEarlyInteract
    \/ TexInteract
    \/ \E s \in TexSlots : TexPerInteract(s)
    \/ \E s \in ShowSlots : TexShow(s)
    \/ \E s \in TexSlots :
          \E surf \in CanRead(movie[s].channel),
             mask_read \in CanRead(movie[s].mask_channel) :
              TexRender(s, surf, mask_read)
    \/ \E surf \in CanRead("movie") : TexRenderMovie(surf)
    \/ TexFrequent
    \/ \E c \in Channels : TexMusicStop(c)

SpecTex == InitTex /\ [][NextTex]_vars

\* The slots of the group of s, s apart.
Siblings(s) ==
    {x \in TexSlots : x # s /\ movie[s].group # None /\ movie[x].group = movie[s].group}

\* C5: a render of a slot whose source is unresolvable and which has a
\* fallback image, made while nothing plays on its channel, draws the
\* fallback image.
C5_FallbackWhenUnresolvable ==
    \A s \in TexSlots :
        (/\ rv.slot = s /\ ~ rv.playing
         /\ movie[s]._original_play # None
         /\ Names(movie[s]._original_play) \cap loadable = {}
         /\ movie[s]._play = None
         /\ movie[s].image)
        => rv.kind = "image"

\* C6, as stated: a render of Y whose channel yields no texture, while the
\* cache holds a frame of the channel of a registered slot X of its group,
\* draws a texture of X's channel.
C6_SiblingFrame ==
    \A y \in TexSlots : \A x \in Siblings(y) :
        (/\ rv.slot = y /\ rv.got = NoTex
         /\ x \in displayable_channels
         /\ texture[movie[x].channel] # Absent)
        => (rv.kind = "tex" /\ rv.tex.ch = movie[x].channel)

\* C6, amended: a render of Y whose channel yields no texture draws the
\* texture last published to its group by a render, if a slot of the group
\* has been registered at every frequent() since it was published.
C6_PublishedFrame ==
    \A y \in TexSlots :
        (/\ rv.slot = y /\ rv.got = NoTex
         /\ movie[y].group # None
         /\ pub[movie[y].group] # NoTex)
        => (rv.kind = "tex" /\ rv.tex = pub[movie[y].group])

\* Y draws the frame A published, its own channel playing nothing.
C6_Witness ==
    /\ rv.slot = "Y" /\ rv.got = NoTex /\ ~ rv.playing
    /\ "A" \in displayable_channels
    /\ rv.kind = "tex" /\ rv.tex.ch = "movie" /\ rv.tex = pub["g"]

\* C7, as stated: the first render of a slot after its show event finds the
\* channel in the Reset Set, has not_playing false and does not draw the
\* fallback image.
C7_ShownThenRendered ==
    (rv.slot # None /\ rv.shown \in {"shown", "synced"})
    => (rv.in_reset /\ ~ rv.not_playing /\ rv.kind # "image")

\* C7, amended: so it is if update_playing has not run between the show
\* event and the render.
C7_ShownThenRenderedUnsynced ==
    (rv.slot # None /\ rv.shown = "shown")
    => (rv.in_reset /\ ~ rv.not_playing /\ rv.kind # "image")

\* A slot with a fallback image is rendered right after its show event,
\* nothing playing on its channel and no entry held for its group.
C7_Witness ==
    /\ rv.slot \in ShowSlots /\ rv.shown = "shown"
    /\ ~ rv.playing /\ ~ rv.in_group /\ rv.in_reset
    /\ movie[rv.slot].image /\ rv.kind = "empty"

\* C8: get_movie_texture returns (None, False) on a channel that plays
\* nothing, and never returns a texture cached before the channel stopped
\* and was started again.
C8_NoEarlierPlayback ==
    rv.called
    => /\ ~ rv.playing => (rv.got = NoTex /\ ~ rv.new)
       /\ rv.got # NoTex => ~ rv.got.stale

\* C9, as stated: with a mask frame and no frame of the channel itself,
\* get_movie_texture returns (None, False).
C9_MaskWithoutFrame ==
    (rv.called /\ rv.mask_surf /\ ~ rv.surf)
    => (rv.got = NoTex /\ ~ rv.new)

\* C9, amended: it then returns what the cache holds for the channel, None
\* if it holds nothing, with the flag False, and leaves the cache as it was.
C9_MaskWithoutFrameCached ==
    \A s \in TexSlots :
        (rv.slot = s /\ rv.called /\ rv.mask_surf /\ ~ rv.surf)
        => /\ rv.got = rv.cached /\ ~ rv.new
           /\ Get(texture, movie[s].channel) = rv.cached

\* A mask frame, no frame of the channel, and a texture in the cache.
C9_Witness ==
    /\ rv.called /\ rv.mask_surf /\ ~ rv.surf
    /\ rv.cached # NoTex /\ rv.got = rv.cached

\* C20: a run of frequent() leaves in the group textures an entry for
\* exactly the groups of the Movies registered by per_interact; an entry
\* kept holds what it held before the run, or None if the group had no
\* entry, and the entry of a group with no registered Movie is dropped.
C20_GroupKeys ==
    [][ up'.ran =>
            \A g \in Groups :
                IF \E s \in displayable_channels : movie[s].group = g
                THEN /\ group_texture'[g] # Absent
                     /\ group_texture'[g] = IF group_texture[g] = Absent
                                            THEN NoTex
                                            ELSE group_texture[g]
                ELSE group_texture'[g] = Absent
      ]_vars

\* A run has kept the frame of the group of a registered Movie.
C20_Witness ==
    /\ up.ran
    /\ "A" \in displayable_channels
    /\ group_texture["g"] # Absent
    /\ group_texture["g"] # NoTex

----------------------------------------------------------------------------
(* Channel names: constructions and restores under every configuration *)

\* The names the counter may reach in the model.
MaxSerial == 4

\* The Movie(...) calls of the channel names: the default channel, a name
\* with a space, and a name with a slash next to a mask channel of its own.
ChanArgs(s) ==
    IF s = "A"
    THEN [MovieArgs("A") EXCEPT !.channel = "movie"]
    ELSE IF s = "B"
    THEN [MovieArgs("B") EXCEPT !.channel = "s p", !.mask = "m1"]
    ELSE [MovieArgs("Y") EXCEPT !.channel = "a/b", !.mask_channel = "mc"]

\* The configurations of the two channel settings.
ChanConfigs ==
    [single_movie_channel : {None, "single"}, auto_movie_channel : BOOLEAN]

\* Movie(...) under the configuration and the counter of the state.
ChanConstruct(s) ==
    /\ movie_channel_serial < MaxSerial
    /\ LET choice == ChannelChoice(ChanArgs(s), config, movie_channel_serial) IN
       /\ movie' = [movie EXCEPT ![s] =
              MovieInitAt(ChanArgs(s), loadable, config, movie_channel_serial)]
       /\ movie_channel_serial' = choice.serial
    /\ made' = [slot |-> s, by |-> "__init__"]
    /\ rv' = NoRv
    /\ up' = NoUp
    /\ UNCHANGED <<loadable, replay_movie_sprites, video_image_fallback, playing,
                   texture, group_texture, displayable_channels, channel_movie,
                   reset_channels, last_channel_movie, context, context_movie,
                   fullscreen, config, ov, video_ready>>
    /\ UNCHANGED obs

\* Movie.after_setstate on the restored object of slot s, both parts.
ChanAfterSetstate(s) ==
    /\ movie_channel_serial < MaxSerial
    /\ LET named == after_setstate_channel(after_setstate(movie[s], loadable),
                                           movie_channel_serial) IN
       /\ movie' = [movie EXCEPT ![s] = named.movie]
       /\ movie_channel_serial' = named.serial
    /\ made' = [slot |-> s, by |-> "after_setstate"]
    /\ rv' = NoRv
    /\ up' = NoUp
    /\ UNCHANGED <<loadable, replay_movie_sprites, video_image_fallback, playing,
                   texture, group_texture, displayable_channels, channel_movie,
                   reset_channels, last_channel_movie, context, context_movie,
                   fullscreen, config, ov, video_ready>>
    /\ UNCHANGED obs

\* The game changes a channel setting between two statements.
ChanConfigure(cfg) ==
    /\ config' = cfg
    /\ made' = NoMade
    /\ rv' = NoRv
    /\ up' = NoUp
    /\ UNCHANGED <<movie, loadable, replay_movie_sprites, video_image_fallback,
                   playing, texture, group_texture, displayable_channels,
                   channel_movie, reset_channels, last_channel_movie, context,
                   context_movie, fullscreen, movie_channel_serial, ov,
                   video_ready>>
    /\ UNCHANGED obs

\* The three Movies are constructed in turn from a counter at 0, under any
\* configuration.
InitChan ==
    /\ loadable = Files
    /\ config \in ChanConfigs
    /\ LET a == ChannelChoice(ChanArgs("A"), config, 0)
           b == ChannelChoice(ChanArgs("B"), config, a.serial)
           y == ChannelChoice(ChanArgs("Y"), config, b.serial) IN
       /\ movie = [s \in Slots |->
              MovieInitAt(ChanArgs(s), loadable, config,
                          IF s = "A" THEN 0
                          ELSE IF s = "B" THEN a.serial ELSE b.serial)]
       /\ movie_channel_serial = y.serial
    /\ replay_movie_sprites = FALSE
    /\ video_image_fallback = FALSE
    /\ playing = [c \in AllChannels |-> None]
    /\ texture = [c \in Channels |-> Absent]
    /\ group_texture = [g \in Groups |-> Absent]
    /\ displayable_channels = {}
    /\ channel_movie = NoMovies
    /\ reset_channels = {}
    /\ last_channel_movie = NoMovies
    /\ context = 1
    /\ context_movie = [k \in Contexts |-> NoMovies]
    /\ fullscreen = FALSE
    /\ rv = NoRv
    /\ up = NoUp
    /\ made = NoMade
    /\ streak = ZeroStreak
    /\ gone = ZeroGone
    /\ shown = [s \in Slots |-> "no"]
    /\ pub = [g \in Groups |-> NoTex]
    /\ cleared = "no"
    /\ ov = NoOv
    /\ video_ready = {}

NextChan ==
    \/ \E s \in Slots : ChanConstruct(s)
    \/ \E s \in Slots : ChanAfterSetstate(s)
    \/ \E cfg \in ChanConfigs : ChanConfigure(cfg)

SpecChan == InitChan /\ [][NextChan]_vars

\* A name the counter has produced.
IsGenerated(name) == \E k \in 0 .. MaxSerial : name = GenName(k)

\* A name with a space or a slash in it.
BadName(name) == Contains(name, " ") \/ Contains(name, "/")

\* C11, as stated: a slot constructed with a channel name that holds a space
\* or a slash has that name replaced by a generated one at construction.
C11_ConstructionRenames ==
    \A s \in Slots :
        (made = [slot |-> s, by |-> "__init__"] /\ BadName(ChanArgs(s).channel))
            => IsGenerated(movie[s].channel)

\* C11, amended: the constructor keeps a name with a space or a slash and
\* generates a name only for the default channel "movie" of a Movie that
\* plays, when no single channel is configured and automatic channels are on;
\* a restore replaces a name with a space or a slash by a generated one.
\* Every generated name is "_movie_<k>" for the value k of the one counter,
\* which then grows by one, so no two slots hold the same generated name.
C11_GeneratedNames ==
    [][ /\ \A s \in Slots :
            (made'.slot = s /\ made'.by = "__init__")
                => movie'[s].channel =
                     IF ChanArgs(s).channel = "movie"
                        /\ config.single_movie_channel = None
                        /\ config.auto_movie_channel
                     THEN GenName(movie_channel_serial)
                     ELSE IF ChanArgs(s).channel = "movie"
                             /\ config.single_movie_channel # None
                     THEN config.single_movie_channel
                     ELSE ChanArgs(s).channel
        /\ \A s \in Slots :
            (made'.slot = s /\ made'.by = "after_setstate")
                => movie'[s].channel =
                     IF BadName(movie[s].channel)
                     THEN GenName(movie_channel_serial)
                     ELSE movie[s].channel
        /\ \A s \in Slots :
            (IsGenerated(movie'[s].channel)
             /\ movie'[s].channel # movie[s].channel)
                => /\ movie'[s].channel = GenName(movie_channel_serial)
                   /\ movie_channel_serial' = movie_channel_serial + 1
        /\ \A s, t \in Slots :
            (s # t /\ IsGenerated(movie'[s].channel))
                => movie'[s].channel # movie'[t].channel
      ]_vars

\* Two restored slots hold two generated names, the mask channel of the one
\* that had a mask channel following its new name.
C11_Witness ==
    /\ made = [slot |-> "Y", by |-> "after_setstate"]
    /\ IsGenerated(movie["B"].channel)
    /\ IsGenerated(movie["Y"].channel)
    /\ movie["B"].channel # movie["Y"].channel
    /\ movie["Y"].mask_channel = MaskOf(movie["Y"].channel)

----------------------------------------------------------------------------
(* SpecOver: one call of find_oversampled, for every filename, setting and *)
(* loader content of the model                                           *)

\* The filenames of the model: an optional <...> prefix, a stem, an optional
\* "@" with its comma-separated values, an optional directory step after
\* them, and the extension.  A number is its text and its value in tenths.
MaxTokens == 2

Prefixes == {"", "<p>"}
Stems == {"m", "d/m"}
Numbers == {<<"2", 20>>, <<"3", 30>>, <<"1.5", 15>>}
NumberTexts == {n[1] : n \in Numbers}
Tokens == {"2", "3", "x"}
TokenSeqs ==
    {<<t>> : t \in NumberTexts \cup {"x", ""}}
    \cup UNION {[1 .. n -> Tokens] : n \in 2 .. MaxTokens}
Tails == {"", "/n"}
Ext == ".webm"

RECURSIVE Join(_)
Join(seq) ==
    IF seq = <<>> THEN ""
    ELSE IF Len(seq) = 1 THEN seq[1]
    ELSE seq[1] \o "," \o Join(Tail(seq))

Markers == {""} \cup {"@" \o Join(q) : q \in TokenSeqs}

OverFilenames ==
    {p \o st \o mk \o tl \o Ext :
         p \in Prefixes, st \in Stems, mk \in Markers, tl \in Tails}
    \cup ListSources

\* The multipliers a loader of the model may hold candidates for.
MaxMultiplier == 4

\* The settings and the loader contents find_oversampled is called under.
OverEnvs(filename) ==
    [automatic_oversampling : {0, 2, 3, 4},
     draw : BOOLEAN,
     draw_per_virt : {10, 15, 23},
     ld : SUBSET {LoaderName(new_filename(filename, i)) :
                      i \in 2 .. MaxMultiplier}]

\* The calls find_oversampled(new, filename) of the model, new.oversample
\* being oversample.
OverCalls ==
    UNION {[called : {FALSE},
            oversample : {{}, {20}},
            filename : {filename},
            env : OverEnvs(filename)] : filename \in OverFilenames}

\* The call of the state is made.
FindOversampled ==
    /\ ~ov.called
    /\ ov' = [called |-> TRUE,
              oversample |-> ov.oversample,
              filename |-> ov.filename,
              env |-> ov.env,
              found |-> IF ov.oversample = {} /\ ov.filename \notin ListSources
                        THEN find_oversampled_filename(ov.filename, ov.env)
                        ELSE ov.filename,
              out |-> find_oversampled(ov.oversample, ov.filename, ov.env)]
    /\ rv' = NoRv
    /\ up' = NoUp
    /\ made' = NoMade
    /\ UNCHANGED <<movie, loadable, replay_movie_sprites, video_image_fallback,
                   playing, texture, group_texture, displayable_channels,
                   channel_movie, reset_channels, last_channel_movie, context,
                   context_movie, fullscreen, config, movie_channel_serial,
                   video_ready>>
    /\ UNCHANGED obs

\* Any one call, about to be made.
InitOver ==
    /\ ov \in OverCalls
    /\ video_ready = {}
    /\ loadable = Files
    /\ movie = [s \in Slots |-> MovieInit(MovieArgs(s), loadable)]
    /\ replay_movie_sprites = FALSE
    /\ video_image_fallback = FALSE
    /\ playing = [c \in AllChannels |-> None]
    /\ texture = [c \in Channels |-> Absent]
    /\ group_texture = [g \in Groups |-> Absent]
    /\ displayable_channels = {}
    /\ channel_movie = NoMovies
    /\ reset_channels = {}
    /\ last_channel_movie = NoMovies
    /\ context = 1
    /\ context_movie = [k \in Contexts |-> NoMovies]
    /\ fullscreen = FALSE
    /\ rv = NoRv
    /\ up = NoUp
    /\ made = NoMade
    /\ streak = ZeroStreak
    /\ gone = ZeroGone
    /\ shown = [s \in Slots |-> "no"]
    /\ pub = [g \in Groups |-> NoTex]
    /\ cleared = "no"
    /\ config = DefaultConfig
    /\ movie_channel_serial = 0

NextOver == FindOversampled

SpecOver == InitOver /\ [][NextOver]_vars

\* The call searched: no explicit factor, a str, oversampling on and a scale
\* above 1.
Searching ==
    /\ ov.called
    /\ ov.oversample = {}
    /\ ov.filename \notin ListSources
    /\ ov.env.automatic_oversampling # 0
    /\ ov.env.draw
    /\ ov.env.draw_per_virt > 10

\* The multipliers from 2 to M whose candidate the loader finds.
LoadableMultipliers ==
    {i \in 2 .. Min(CeilPow2(ov.env.draw_per_virt),
                    ov.env.automatic_oversampling) :
         LoaderName(new_filename(ov.filename, i)) \in ov.env.ld}

Greatest(set) == CHOOSE i \in set : \A j \in set : j <= i

\* C12, as stated: the search returns the candidate of the greatest loadable
\* multiplier from M down to 2, the @extras of the original name kept in
\* it, and the original filename with factor 1 when no candidate is loadable.
C12_GreatestLoadable ==
    Searching =>
        IF LoadableMultipliers = {}
        THEN /\ ov.found = ov.filename
             /\ ~Contains(ov.filename, "@")
                    => (~ov.out.raised /\ ov.out.oversample = 10)
        ELSE ov.found = new_filename(ov.filename, Greatest(LoadableMultipliers))

\* C12, amended: the search is made only for a filename without "@", which
\* has no extras to keep; it returns the candidate base@i.ext of the greatest
\* loadable i from M down to 2, whose factor is i, and the original filename
\* with factor 1 when there is none.  A filename with "@" in it is returned
\* as it is, whatever the loader holds.
C12_GreatestLoadableUnmarked ==
    /\ (Searching /\ ~Contains(ov.filename, "@")) =>
           /\ ~ov.out.raised
           /\ IF LoadableMultipliers = {}
              THEN /\ ov.found = ov.filename
                   /\ ov.out.oversample = 10
              ELSE LET i == Greatest(LoadableMultipliers) IN
                   /\ ov.found = new_filename(ov.filename, i)
                   /\ ov.out.oversample = 10 * i
    /\ (ov.called /\ ov.filename \notin ListSources
        /\ Contains(ov.filename, "@")) =>
           ov.found = ov.filename

\* Scale 2.3 and a maximum of 4: m@4.webm is not loadable, m@2.webm is, and
\* the factor is 2.
C12_Witness ==
    /\ Searching
    /\ ov.filename = "m.webm"
    /\ ov.env.draw_per_virt = 23
    /\ ov.env.automatic_oversampling = 4
    /\ ov.env.ld = {"m@2.webm"}
    /\ ov.found = "m@2.webm"
    /\ ov.out.oversample = 20

\* The call parsed a marker: no explicit factor and a str with "@" in it.
Parsing ==
    /\ ov.called
    /\ ov.oversample = {}
    /\ ov.filename \notin ListSources
    /\ Contains(ov.filename, "@")

\* The values after the "@" of the filename of the call.
Values == Modifiers(ov.filename)

\* C13, as stated: of several comma-separated values after the "@", the
\* factor is the first one that parses as a number.
C13_FirstNumberWins ==
    (Parsing /\ Len(Values) > 1 /\ \E i \in 1 .. Len(Values) : CanFloat(Values[i]))
        => /\ ~ov.out.raised
           /\ \E i \in 1 .. Len(Values) :
                  /\ CanFloat(Values[i])
                  /\ \A j \in 1 .. (i - 1) : ~CanFloat(Values[j])
                  /\ ov.out.oversample = float(Values[i])

\* C13, amended: of several comma-separated values after the "@" every one
\* is parsed in order; the call raises when one of them is no number, and the
\* factor is otherwise the last value.
C13_LastNumberWins ==
    (Parsing /\ Len(Values) > 1)
        => IF \E i \in 1 .. Len(Values) : ~CanFloat(Values[i])
           THEN ov.out.raised
           ELSE /\ ~ov.out.raised
                /\ ov.out.oversample = float(Values[Len(Values)])

\* m@2,3.webm plays at factor 3.
C13_Witness ==
    /\ Parsing
    /\ ov.filename = "m@2,3.webm"
    /\ ~ov.out.raised
    /\ ov.out.oversample = 30

Chosen == ov.found

\* C24: the filename returned for playback is the filename given or the
\* oversampled candidate chosen for it, its <...> prefix unchanged.
C24_PrefixKept ==
    (ov.called /\ ~ov.out.raised) => ov.out.filename = Chosen

----------------------------------------------------------------------------
(* Movie.play: one call, for every pair of Movies with or without a source, *)
(* a mask and a callback of the game                                        *)

\* The Movie(...) calls of slot s: any source or none, a callback or none,
\* and for the slot on a channel with a mask channel, a mask or none.
PlayArgs(s) ==
    {[MovieArgs(s) EXCEPT !.play = p, !.play_callback = cb, !.mask = mk] :
        p \in {None, "f1", "f2"}, cb \in BOOLEAN,
        mk \in IF s = "Y" THEN {None, "m1"} ELSE {None}}

\* self.play(old) called once, old being a Movie or None.
PlayOnce(self, old) ==
    LET cmds == MoviePlay(self, old)
        st == RunCmds([playing |-> playing, texture |-> texture], cmds)
    IN
    /\ playing' = st.playing
    /\ texture' = st.texture
    /\ up' = [NoUp EXCEPT !.calls = <<PlayCall(self, old, movie[self].channel)>>,
                          !.cmds = cmds]
    /\ movie' = PlayedMovies(up'.calls)
    /\ rv' = NoRv
    /\ made' = NoMade
    /\ UNCHANGED <<loadable, replay_movie_sprites, video_image_fallback,
                   group_texture, displayable_channels, channel_movie,
                   reset_channels, last_channel_movie, context, context_movie,
                   fullscreen>>
    /\ UNCHANGED obs
    /\ UNCHANGED other

InitPlay ==
    /\ loadable \in {Files, {"f1"}}
    /\ movie \in [Slots -> UNION {{MovieInit(a, loadable) : a \in PlayArgs(s)} :
                                      s \in Slots}]
    /\ \A s \in Slots : \E a \in PlayArgs(s) : movie[s] = MovieInit(a, loadable)
    /\ replay_movie_sprites \in BOOLEAN
    /\ video_image_fallback = FALSE
    /\ playing = [c \in AllChannels |-> None]
    /\ texture = [c \in Channels |-> Absent]
    /\ group_texture = [g \in Groups |-> Absent]
    /\ displayable_channels = {}
    /\ channel_movie = NoMovies
    /\ reset_channels = {}
    /\ last_channel_movie = NoMovies
    /\ context = 1
    /\ context_movie = [k \in Contexts |-> NoMovies]
    /\ fullscreen = FALSE
    /\ rv = NoRv
    /\ up = NoUp
    /\ made = NoMade
    /\ streak = ZeroStreak
    /\ gone = ZeroGone
    /\ shown = [s \in Slots |-> "no"]
    /\ pub = [g \in Groups |-> NoTex]
    /\ cleared = "no"
    /\ config = DefaultConfig
    /\ movie_channel_serial = 0
    /\ ov = NoOv
    /\ video_ready = {}

NextPlay == \E self \in Slots, old \in Slots \cup {None} : PlayOnce(self, old)

SpecPlay == InitPlay /\ [][NextPlay]_vars

\* C18: Movie.play(old) issues nothing when neither Movie has a source; the
\* callback of the game if there is one, else the default callback (a play
\* of the mask if there is one, then of the source), once, when this Movie
\* has a source and it differs from that of old or replay_movie_sprites is
\* on; nothing when it has the source of old and replay_movie_sprites is
\* off; a stop of its channel, and of its mask channel if it has a mask,
\* when it has no source and old has one.
C18_PlayIssues ==
    (~up.ran /\ Len(up.calls) = 1) =>
        LET self == up.calls[1].slot
            old == up.calls[1].arg
            m == movie[self]
            old_play == IF old = None THEN None ELSE movie[old]._play
        IN  IF m._play = None /\ old_play = None
            THEN up.cmds = <<>>
            ELSE IF m._play # None /\ (m._play # old_play \/ replay_movie_sprites)
            THEN IF m.play_callback
                 THEN /\ Len(up.cmds) = 1
                      /\ up.cmds[1].cmd = "callback"
                      /\ up.cmds[1].channel = m.channel
                 ELSE up.cmds =
                          (IF m.mask # None
                           THEN <<PlayCmd(m.mask, m.mask_channel, m.loop)>>
                           ELSE <<>>)
                          \o <<PlayCmd(m._play, m.channel, m.loop)>>
            ELSE IF m._play # None
            THEN up.cmds = <<>>
            ELSE up.cmds =
                     <<StopCmd(m.channel)>>
                     \o (IF m.mask # None THEN <<StopCmd(m.mask_channel)>>
                         ELSE <<>>)

\* A forced replay calls the game's callback of a Movie whose source is that
\* of the Movie before it.
C18_Witness ==
    /\ ~up.ran
    /\ up.calls = <<PlayCall("Y", "A", "y")>>
    /\ replay_movie_sprites
    /\ movie["Y"]._play = "f1"
    /\ movie["A"]._play = "f1"
    /\ movie["Y"].play_callback
    /\ Len(up.cmds) = 1
    /\ up.cmds[1].cmd = "callback"

----------------------------------------------------------------------------
(* SpecFreq: what frequent() returns and the redraws it asks for, while    *)
(* the decoders make frames ready.  One movie on "movie", one with a mask  *)
(* on a channel of its own.                                                *)

FreqSlots == {"A", "Y"}

\* A decoder has a frame ready on a channel that plays, or the frame it had
\* ready is taken.
BackendFrame(c) ==
    /\ c \in video_ready \/ playing[c] # None
    /\ video_ready' = IF c \in video_ready THEN video_ready \ {c}
                      ELSE video_ready \cup {c}
    /\ rv' = NoRv /\ up' = NoUp /\ made' = NoMade
    /\ UNCHANGED <<movie, loadable, replay_movie_sprites, video_image_fallback,
                   playing, texture, group_texture, displayable_channels,
                   channel_movie, reset_channels, last_channel_movie, context,
                   context_movie, fullscreen, config, movie_channel_serial, ov>>
    /\ UNCHANGED obs

InitFreq ==
    /\ Init
    /\ loadable = Files
    /\ ~replay_movie_sprites
    /\ ~video_image_fallback

FreqEarlyInteract == EarlyInteract /\ UNCHANGED obs /\ UNCHANGED other
FreqInteract == Interact /\ UNCHANGED obs /\ UNCHANGED other
FreqPerInteract(s) == PerInteract(s) /\ UNCHANGED obs /\ UNCHANGED other
FreqRender(s) == Render(s, FALSE, FALSE) /\ UNCHANGED obs /\ UNCHANGED other
FreqFrequent == Frequent /\ UNCHANGED obs /\ UNCHANGED other

NextFreq ==
    \/ FreqEarlyInteract
    \/ FreqInteract
    \/ \E s \in FreqSlots : FreqPerInteract(s)
    \/ \E s \in FreqSlots : FreqRender(s)
    \/ FreqFrequent
    \/ \E c \in AllChannels : BackendFrame(c)

SpecFreq == InitFreq /\ [][NextFreq]_vars

\* The channels and mask channels of the registered Movies.
RegisteredChannels ==
    {movie[s].channel : s \in displayable_channels}
    \cup {movie[s].mask_channel :
              s \in {t \in displayable_channels : movie[t].mask_channel # None}}

\* C21: frequent() returns true only when a movie is fullscreen and the
\* channel "movie" has a frame ready.  When none is fullscreen and Movies
\* are registered, it asks a redraw after 0 for every registered Movie if
\* the channel and the mask channel of every one of them have a frame ready,
\* and for none otherwise, and returns false.
C21_ReturnAndRedraws ==
    up.ran =>
        /\ up.ret <=> (fullscreen /\ "movie" \in video_ready)
        /\ fullscreen => up.redraws = {}
        /\ (~fullscreen /\ displayable_channels # {}) =>
               /\ ~up.ret
               /\ up.redraws = IF RegisteredChannels \subseteq video_ready
                               THEN displayable_channels
                               ELSE {}

\* Both registered Movies are asked to redraw: the three channels have a
\* frame ready.
C21_Witness ==
    /\ up.ran
    /\ ~fullscreen
    /\ displayable_channels = {"A", "Y"}
    /\ video_ready = {"movie", "y", "y_mask"}
    /\ up.redraws = {"A", "Y"}
    /\ ~up.ret

----------------------------------------------------------------------------
(* SpecScale: the factor a render corrects the frame by.  Two movies share *)
(* the channel "movie"; each plays a file with or without a factor in its  *)
(* name, and the decoder may or may not deliver a frame to a render.       *)

ScaleSlots == {"A", "B"}
ScaleSources == {"f1", "f@2.webm"}

InitScale ==
    /\ loadable = ScaleSources
    /\ movie \in {[s \in Slots |->
                      MovieInit(IF s = "A"
                                THEN [MovieArgs(s) EXCEPT !.play = pa]
                                ELSE IF s = "B"
                                THEN [MovieArgs(s) EXCEPT !.play = pb]
                                ELSE MovieArgs(s),
                                loadable)] :
                     pa \in ScaleSources, pb \in ScaleSources}
    /\ replay_movie_sprites \in BOOLEAN
    /\ video_image_fallback = FALSE
    /\ playing = [c \in AllChannels |-> None]
    /\ texture = [c \in Channels |-> Absent]
    /\ group_texture = [g \in Groups |-> Absent]
    /\ displayable_channels = {}
    /\ channel_movie = NoMovies
    /\ reset_channels = {}
    /\ last_channel_movie = NoMovies
    /\ context = 1
    /\ context_movie = [k \in Contexts |-> NoMovies]
    /\ fullscreen = FALSE
    /\ rv = NoRv
    /\ up = NoUp
    /\ made = NoMade
    /\ streak = ZeroStreak
    /\ gone = ZeroGone
    /\ shown = [s \in Slots |-> "no"]
    /\ pub = [g \in Groups |-> NoTex]
    /\ cleared = "no"
    /\ config = DefaultConfig
    /\ movie_channel_serial = 0
    /\ ov = NoOv
    /\ video_ready = {}

ScaleEarlyInteract == EarlyInteract /\ UNCHANGED obs /\ UNCHANGED other
ScaleRender(s, surf) == Render(s, surf, FALSE) /\ UNCHANGED obs /\ UNCHANGED other
ScaleFrequent == Frequent /\ UNCHANGED obs /\ UNCHANGED other

NextScale ==
    \/ ScaleEarlyInteract
    \/ \E s \in ScaleSlots :
          \E surf \in CanRead(movie[s].channel) : ScaleRender(s, surf)
    \/ ScaleFrequent

SpecScale == InitScale /\ [][NextScale]_vars

\* The factor find_oversampled gives a Movie for the source src.
Resolved(s, src) == find_oversampled(movie[s].oversample, src, OverEnv).oversample

\* C23: a Movie that was the occupant of its channel in the last run of
\* update_playing and draws a frame of the channel corrects it by the factor
\* of the source the channel plays, also when it took the channel from a
\* Movie of the same source with replay_movie_sprites off.
C23_RenderedFactor ==
    \A s \in ScaleSlots :
        (/\ rv.slot = s
         /\ rv.kind = "tex"
         /\ rv.tex.ch = movie[s].channel
         /\ last_channel_movie[movie[s].channel] = s
         /\ playing[movie[s].channel] # None)
        => rv.oversample = Resolved(s, playing[movie[s].channel])

====
